---- MODULE Spec2Model ----
(***************************************************************************)
(* sign-off-checker: the webhook handler that publishes a Signed-off-by   *)
(* verdict on every commit of a pull request (pkg/webhook), and the        *)
(* periodic sweep that installs the webhook and the required status check *)
(* on every DCO repository of the configured organizations (pkg/register).*)
(*                                                                         *)
(* Every call of the hosting API is one step of the model: the remote     *)
(* answers each call on its own, so a handler or a sweep is a sequence of *)
(* steps, one per call, each carrying the code that runs up to the next   *)
(* call.                                                                   *)
(***************************************************************************)
EXTENDS Integers, Sequences, FiniteSets, TLC

VARIABLES
    prCommits,      \* remote: pull request -> its commit listing, as the pages the API serves
    statuses,       \* remote: SHA -> the latest status under SignOffCheckerContext, or NoStatus
    handler,        \* handler -> the state of the ServeHTTP call it runs
    repos,          \* remote: repository -> its default branch and CONTRIBUTING.md
    orgRepos,       \* remote: organization -> its repository listing, as the pages the API serves
    hooks,          \* remote: repository -> its webhook listing
    protection,     \* remote: repository -> branch -> the protection of the branch
    dryRun,         \* --dry-run
    reg,            \* the state of the autoregister goroutine and of the sweep it runs
    loop,           \* the for/select loop of autoregister, its channels and its ticker
    actor           \* history: the changes another actor made to branch protections

wvars == <<prCommits, statuses, handler>>

----------------------------------------------------------------------------
(* Bounds of the model                                                     *)

MaxCommits == 3      \* commits of a pull request
MaxPages == 2        \* pages of a pull request's commit listing
MaxExternalChanges == 1  \* changes another actor makes to branch protections

----------------------------------------------------------------------------
(* Program constants                                                       *)

PerPage == 10                            \* github.ListOptions{PerPage: 10}
SignOffCheckerContext == "signed-off-by" \* constants.SignOffCheckerContext
StatusBadRequest == 400                  \* http.StatusBadRequest
StatusOK == 200                          \* the status net/http sends for a handler that returns without writing one

Secret == "shared-secret"                \* Handler.Secret
Handlers == {"h1"}
PRs == {"pr1"}
Owner == "heptio"
RepoName == "repo"

None == "none"
NoStatus == [state |-> None]

----------------------------------------------------------------------------
(* Commit messages: strings are sequences of one-character strings.       *)

MsgSigned ==      \* "fix\n\nSigned-off-by: A"
    <<"f","i","x","\n","\n","S","i","g","n","e","d","-","o","f","f","-","b","y",":"," ","A">>
MsgTypo ==        \* "typo"
    <<"t","y","p","o">>
MsgIndented ==    \* "wip\n signed-off-by: c"   (no line starts with the marker)
    <<"w","i","p","\n"," ","s","i","g","n","e","d","-","o","f","f","-","b","y",":"," ","c">>

Messages == {MsgSigned, MsgTypo, MsgIndented}

\* the literal of testRE, `signed-off-by:`
testREPattern == <<"s","i","g","n","e","d","-","o","f","f","-","b","y",":">>

\* flag i of testRE: a letter matches in either case
FoldCase(c) ==
    CASE c = "S" -> "s" [] c = "I" -> "i" [] c = "G" -> "g" [] c = "N" -> "n"
      [] c = "E" -> "e" [] c = "D" -> "d" [] c = "O" -> "o" [] c = "F" -> "f"
      [] c = "B" -> "b" [] c = "Y" -> "y" [] c = "A" -> "a" [] c = "T" -> "t"
      [] OTHER -> c

\* flag m of testRE: ^ matches at the start of the text and after every newline
LineStart(msg, i) == i = 1 \/ msg[i - 1] = "\n"

\* the match without flag i
MatchStringCaseSensitive(msg) ==
    \E i \in 1..Len(msg) :
        /\ LineStart(msg, i)
        /\ i + Len(testREPattern) - 1 <= Len(msg)
        /\ \A k \in 1..Len(testREPattern) : msg[i + k - 1] = testREPattern[k]

\* testRE.MatchString(msg), testRE = (?mi)^signed-off-by:
MatchString(msg) ==
    \E i \in 1..Len(msg) :
        /\ LineStart(msg, i)
        /\ i + Len(testREPattern) - 1 <= Len(msg)
        /\ \A k \in 1..Len(testREPattern) : FoldCase(msg[i + k - 1]) = testREPattern[k]

----------------------------------------------------------------------------
(* Pull-request commit listings                                            *)

SeqsUpTo(S, n) == UNION {[1..k -> S] : k \in 0..n}

RECURSIVE Offset(_, _)
\* the number of commits on the first p pages, given the lengths of the pages
Offset(lens, p) == IF p = 0 THEN 0 ELSE Offset(lens, p - 1) + lens[p]

\* github.RepositoryCommit: the commits of a listing, SHAs numbered in listing order
Commits(msgs) == [i \in 1..Len(msgs) |-> [SHA |-> i, Message |-> msgs[i]]]

\* the ways the API cuts a listing of n commits into pages: no page is empty
\* and none is longer than the requested PerPage; an empty listing is one empty page
PageLengths(n) ==
    IF n = 0 THEN {<<0>>}
    ELSE {lens \in UNION {[1..k -> 1..n] : k \in 1..MaxPages} :
             /\ Offset(lens, Len(lens)) = n
             /\ \A p \in 1..Len(lens) : lens[p] <= PerPage}

\* the pages of a commit sequence cut at the given lengths
Paged(commits, lens) ==
    [p \in 1..Len(lens) |-> SubSeq(commits, Offset(lens, p - 1) + 1, Offset(lens, p))]

\* the listings the remote may hold
Listings ==
    UNION {{Paged(Commits(msgs), lens) : lens \in PageLengths(Len(msgs))} :
              msgs \in SeqsUpTo(Messages, MaxCommits)}

SHAs == 1..MaxCommits

RECURSIVE Flatten(_)
Flatten(pages) == IF pages = <<>> THEN <<>> ELSE Head(pages) \o Flatten(Tail(pages))

----------------------------------------------------------------------------
(* Inbound requests                                                        *)

Keys == {Secret, "other-secret"}
Bodies == {[kind |-> "pull_request", pr |-> p] : p \in PRs}   \* a pull_request event payload
            \cup {[kind |-> "json"],                           \* JSON of another shape
                  [kind |-> "garbage"]}                        \* not JSON
HookTypes == {"pull_request", "ping", "push", "bogus"}         \* X-GitHub-Event
KnownHookTypes == {"pull_request", "ping", "push"}

\* the X-Hub-Signature header: the HMAC of a body under a key, or no header
HMAC(key, body) == [key |-> key, body |-> body]
Signatures == {HMAC(k, b) : k \in Keys, b \in Bodies} \cup {[key |-> None]}

Requests == [sig : Signatures, body : Bodies, hooktype : HookTypes]

\* github.ValidatePayload(r, h.Secret): the payload, or an error
ValidatePayload(r, secret) ==
    IF r.sig = HMAC(secret, r.body) THEN [err |-> FALSE, payload |-> r.body]
                                    ELSE [err |-> TRUE]

\* every payload that decodes is taken for a pull_request event
ParseWebHookIgnoringType(hooktype, payload) ==
    IF hooktype \notin KnownHookTypes \/ payload.kind = "garbage"
    THEN [err |-> TRUE]
    ELSE [err |-> FALSE, type |-> "pull_request", payload |-> payload]

\* github.ParseWebHook(hooktype, payload): the typed event, or an error
ParseWebHook(hooktype, payload) ==
    IF hooktype \notin KnownHookTypes \/ payload.kind = "garbage"
    THEN [err |-> TRUE]
    ELSE [err |-> FALSE, type |-> hooktype, payload |-> payload]

----------------------------------------------------------------------------
(* pkg/webhook                                                             *)

Idle ==
    [pc |-> "idle", req |-> None, pr |-> None, page |-> 0, allCommits |-> <<>>,
     listed |-> FALSE,
     signMissing |-> FALSE, idx |-> 0, attempts |-> <<>>, created |-> <<>>,
     calls |-> <<>>, resp |-> <<>>, panicked |-> FALSE]

\* the scan with its break outside the if: only the first commit examined decides
SignMissingFromBreakEarly(commits, i) ==
    i <= Len(commits) /\ ~MatchString(commits[i].Message)

RECURSIVE SignMissingFrom(_, _)
\* the scan of handlePullRequest: stops at the first commit without the marker
SignMissingFrom(commits, i) ==
    IF i > Len(commits) THEN FALSE
    ELSE IF ~MatchString(commits[i].Message) THEN TRUE
    ELSE SignMissingFrom(commits, i + 1)

\* a verdict taken from the head commit of the pull request alone
SignMissingLastOnly(commits) ==
    commits # <<>> /\ ~MatchString(commits[Len(commits)].Message)

SignMissing(commits) == SignMissingFrom(commits, 1)

\* the github.RepoStatus handlePullRequest builds for every commit
RepoStatus(owner, repo, signMissing) ==
    [TargetURL |-> <<"https://github.com/", owner, "/", repo, "/blob/master/CONTRIBUTING.md">>,
     Context |-> SignOffCheckerContext,
     State |-> IF signMissing THEN "failure" ELSE "success",
     Description |-> IF signMissing THEN "A commit in PR is missing Signed-off-by"
                                    ELSE "Commit has Signed-off-by"]

\* ServeHTTP without the return after a failed validation
ServeHTTPNoReturn(h, r) ==
    /\ handler[h].pc = "idle"
    /\ LET v == ValidatePayload(r, Secret)
           e == ParseWebHook(r.hooktype, r.body)
           start == [Idle EXCEPT !.req = r,
                                 !.resp = IF v.err \/ e.err THEN <<StatusBadRequest>> ELSE <<>>]
       IN IF ~e.err /\ e.type = "pull_request" /\ e.payload.kind = "pull_request"
          THEN handler' = [handler EXCEPT ![h] =
                               [start EXCEPT !.pc = "ListCommits", !.pr = e.payload.pr]]
          ELSE handler' = [handler EXCEPT ![h] =
                               [start EXCEPT !.pc = "done",
                                             !.resp = IF @ = <<>> THEN <<StatusOK>> ELSE @]]
    /\ UNCHANGED <<prCommits, statuses>>

\* ServeHTTP up to its first call of the hosting API
ServeHTTP(h, r) ==
    /\ handler[h].pc = "idle"
    /\ LET v == ValidatePayload(r, Secret)
           start == [Idle EXCEPT !.req = r]
       IN IF v.err
          THEN handler' = [handler EXCEPT ![h] =
                               [start EXCEPT !.pc = "done", !.resp = <<StatusBadRequest>>]]
          ELSE LET e == ParseWebHook(r.hooktype, v.payload)
               IN IF e.err
                  THEN handler' = [handler EXCEPT ![h] =
                               [start EXCEPT !.pc = "done", !.resp = <<StatusBadRequest>>]]
                  ELSE IF e.type = "pull_request"
                  THEN IF e.payload.kind = "pull_request"
                       \* handlePullRequest: owner, repo, number, opt, allCommits
                       THEN handler' = [handler EXCEPT ![h] =
                               [start EXCEPT !.pc = "ListCommits", !.pr = e.payload.pr]]
                       \* event.Repo is nil: the handler panics, net/http drops the connection
                       ELSE handler' = [handler EXCEPT ![h] =
                               [start EXCEPT !.pc = "done", !.panicked = TRUE]]
                  \* PingEvent, or the default arm
                  ELSE handler' = [handler EXCEPT ![h] =
                               [start EXCEPT !.pc = "done", !.resp = <<StatusOK>>]]
    /\ UNCHANGED <<prCommits, statuses>>

\* a pull request without commits gets a status on a head commit
ListCommitsThenHeadStatus(h, fails) ==
    LET s == handler[h]
        pages == prCommits[s.pr]
        p == IF s.page = 0 THEN 1 ELSE s.page
        NextPage == IF p < Len(pages) THEN p + 1 ELSE 0
        all == s.allCommits \o pages[p]
        head == IF all = <<>> THEN <<[SHA |-> 1, Message |-> <<>>]>> ELSE all
        called == [s EXCEPT !.calls = Append(@, "ListCommits")]
    IN /\ s.pc = "ListCommits"
       /\ IF fails
          THEN handler' = [handler EXCEPT ![h] =
                               [called EXCEPT !.pc = "done", !.resp = <<StatusOK>>]]
          ELSE IF NextPage # 0
          THEN handler' = [handler EXCEPT ![h] =
                               [called EXCEPT !.allCommits = all, !.page = NextPage]]
          ELSE handler' = [handler EXCEPT ![h] =
                               [called EXCEPT !.allCommits = head, !.listed = TRUE,
                                              !.signMissing = SignMissing(all),
                                              !.pc = "CreateStatus", !.idx = 1]]
       /\ UNCHANGED <<prCommits, statuses>>

ListCommitsPublishingPartial(h, fails) ==
    LET s == handler[h]
        pages == prCommits[s.pr]
        p == IF s.page = 0 THEN 1 ELSE s.page
        NextPage == IF p < Len(pages) /\ ~fails THEN p + 1 ELSE 0
        all == IF fails THEN s.allCommits ELSE s.allCommits \o pages[p]
        called == [s EXCEPT !.calls = Append(@, "ListCommits")]
    IN /\ s.pc = "ListCommits"
       /\ IF NextPage # 0
          THEN handler' = [handler EXCEPT ![h] =
                               [called EXCEPT !.allCommits = all, !.page = NextPage]]
          ELSE IF all = <<>>
          THEN handler' = [handler EXCEPT ![h] =
                               [called EXCEPT !.allCommits = all, !.listed = ~fails,
                                              !.signMissing = SignMissing(all),
                                              !.pc = "done", !.resp = <<StatusOK>>]]
          ELSE handler' = [handler EXCEPT ![h] =
                               [called EXCEPT !.allCommits = all, !.listed = ~fails,
                                              !.signMissing = SignMissing(all),
                                              !.pc = "CreateStatus", !.idx = 1]]
       /\ UNCHANGED <<prCommits, statuses>>

\* one PullRequests.ListCommits call and the code up to the next call
ListCommits(h, fails) ==
    LET s == handler[h]
        pages == prCommits[s.pr]
        p == IF s.page = 0 THEN 1 ELSE s.page
        NextPage == IF p < Len(pages) THEN p + 1 ELSE 0
        all == s.allCommits \o pages[p]
        called == [s EXCEPT !.calls = Append(@, "ListCommits")]
    IN /\ s.pc = "ListCommits"
       /\ IF fails
          THEN handler' = [handler EXCEPT ![h] =
                               [called EXCEPT !.pc = "done", !.resp = <<StatusOK>>]]
          ELSE IF NextPage # 0
          THEN handler' = [handler EXCEPT ![h] =
                               [called EXCEPT !.allCommits = all, !.page = NextPage]]
          ELSE IF all = <<>>
          THEN handler' = [handler EXCEPT ![h] =
                               [called EXCEPT !.allCommits = all, !.listed = TRUE,
                                              !.signMissing = SignMissing(all),
                                              !.pc = "done", !.resp = <<StatusOK>>]]
          ELSE handler' = [handler EXCEPT ![h] =
                               [called EXCEPT !.allCommits = all, !.listed = TRUE,
                                              !.signMissing = SignMissing(all),
                                              !.pc = "CreateStatus", !.idx = 1]]
       /\ UNCHANGED <<prCommits, statuses>>

\* CreateStatus with a return in the error branch
CreateStatusReturnOnError(h, fails) ==
    LET s == handler[h]
        commit == s.allCommits[s.idx]
        status == RepoStatus(Owner, RepoName, s.signMissing)
        called == [s EXCEPT !.calls = Append(@, "CreateStatus"),
                            !.attempts = Append(@, commit.SHA),
                            !.created = IF fails THEN @
                                        ELSE Append(@, [SHA |-> commit.SHA, status |-> status]),
                            !.idx = @ + 1]
    IN /\ s.pc = "CreateStatus"
       /\ statuses' = IF fails THEN statuses ELSE [statuses EXCEPT ![commit.SHA] = status]
       /\ IF s.idx < Len(s.allCommits) /\ ~fails
          THEN handler' = [handler EXCEPT ![h] = called]
          ELSE handler' = [handler EXCEPT ![h] =
                               [called EXCEPT !.pc = "done", !.resp = <<StatusOK>>]]
       /\ UNCHANGED prCommits

\* one Repositories.CreateStatus call and the code up to the next call
CreateStatus(h, fails) ==
    LET s == handler[h]
        commit == s.allCommits[s.idx]
        status == RepoStatus(Owner, RepoName, s.signMissing)
        called == [s EXCEPT !.calls = Append(@, "CreateStatus"),
                            !.attempts = Append(@, commit.SHA),
                            !.created = IF fails THEN @
                                        ELSE Append(@, [SHA |-> commit.SHA, status |-> status]),
                            !.idx = @ + 1]
    IN /\ s.pc = "CreateStatus"
       /\ statuses' = IF fails THEN statuses ELSE [statuses EXCEPT ![commit.SHA] = status]
       /\ IF s.idx < Len(s.allCommits)
          THEN handler' = [handler EXCEPT ![h] = called]
          ELSE handler' = [handler EXCEPT ![h] =
                               [called EXCEPT !.pc = "done", !.resp = <<StatusOK>>]]
       /\ UNCHANGED prCommits

----------------------------------------------------------------------------
(* pkg/register: configuration and the remote state it reads and writes    *)

Organizations == <<"o1", "o2">>                 \* --autoregister
WebhookURL == "https://example.com/webhook"     \* --public-webhook-url
OtherURL == "https://ci.example.com/hook"
WebhookSecret == Secret                         \* $SHARED_SECRET
RepoNames == {"r1", "r2"}
Branches == {"master", "main"}
StatusNotFound == 404

Nil == [nil |-> TRUE]

\* CONTRIBUTING.md texts, as sequences of words
DCOMarker == <<"Developer", "Certificate", "of", "Origin">>
DocDCO == <<"the", "Developer", "Certificate", "of", "Origin", "applies">>
DocOther == <<"Developer", "Certificate", "of", "origin">>

\* strings.Contains(s, substr)
Contains(s, substr) ==
    \E i \in 1..(Len(s) - Len(substr) + 1) : SubSeq(s, i, i + Len(substr) - 1) = substr

\* the test for a shorter literal
isDCOShortLiteral(contributingDoc) == Contains(contributingDoc, <<"Developer", "Certificate", "of">>)

\* isDCO(contributingDoc)
isDCO(contributingDoc) == Contains(contributingDoc, DCOMarker)

\* the content field of the Contents API, and base64.StdEncoding.DecodeString
Base64(doc) == [base64 |-> doc]
DecodeString(content) == content.base64

FileAbsent == [status |-> StatusNotFound]
File(doc) == [status |-> StatusOK, content |-> Base64(doc)]

\* the hook addSignOffHook creates
NewHook(url, secret) ==
    [Name |-> "web", Events |-> <<"pull_request">>, Active |-> TRUE,
     Config |-> [url |-> url, secret |-> secret, content_type |-> "json"]]

\* hooks found on a repository before the first sweep
OtherHook ==
    [Name |-> "web", Events |-> <<"push">>, Active |-> TRUE,
     Config |-> [url |-> OtherURL, secret |-> "ci", content_type |-> "form"]]
StaleHook ==
    [Name |-> "web", Events |-> <<"push">>, Active |-> FALSE,
     Config |-> [url |-> WebhookURL, secret |-> "old", content_type |-> "json"]]

\* the hook listing of a repository: its pages, or no access (the listing answers 404)
NoAccess == [access |-> FALSE, pages |-> <<<<>>>>]
HookPages(pages) == [access |-> TRUE, pages |-> pages]
HookOptions ==
    {NoAccess, HookPages(<<<<>>>>), HookPages(<<<<OtherHook>>>>),
     HookPages(<<<<OtherHook>>, <<StaleHook>>>>),
     HookPages(<<<<StaleHook>>, <<OtherHook>>>>)}

\* the protection of a branch: the branch is missing, unprotected, or protected
NoBranch == [exists |-> FALSE, protected |-> FALSE]
Unprotected == [exists |-> TRUE, protected |-> FALSE]
Protected(admins, checks, reviews, restrictions) ==
    [exists |-> TRUE, protected |-> TRUE,
     EnforceAdmins |-> [Enabled |-> admins],
     RequiredStatusChecks |-> checks,
     RequiredPullRequestReviews |-> reviews,
     Restrictions |-> restrictions]
Checks(strict, contexts) == [Strict |-> strict, Contexts |-> contexts]

ProtNoChecks == Protected(FALSE, Nil, [DismissStaleReviews |-> TRUE], [Users |-> <<"admin">>])
ProtCI == Protected(TRUE, Checks(TRUE, <<"ci/build">>), Nil, Nil)
ProtSignOff == Protected(FALSE, Checks(FALSE, <<SignOffCheckerContext, "ci/build">>), Nil, Nil)
ProtOptions == {Unprotected, ProtNoChecks, ProtCI, ProtSignOff}

\* the branches of a repository: the default branch, and master when it is another branch
BranchOptions ==
    {[DefaultBranch |-> "master", branches |-> [b \in Branches |-> IF b = "master" THEN p ELSE NoBranch]]
        : p \in ProtOptions}
    \cup
    {[DefaultBranch |-> "main", branches |-> [b \in Branches |-> IF b = "main" THEN p ELSE m]]
        : p \in ProtOptions, m \in {NoBranch, Unprotected, ProtCI}}

\* a repository as the remote holds it
RepoConfigs ==
    {[Contributing |-> File(DocDCO), DefaultBranch |-> bo.DefaultBranch,
      hooks |-> ho, branches |-> bo.branches] : ho \in HookOptions, bo \in BranchOptions}
    \cup
    {[Contributing |-> f, DefaultBranch |-> "master",
      hooks |-> HookPages(<<<<OtherHook>>>>),
      branches |-> [b \in Branches |-> IF b = "master" THEN Unprotected ELSE NoBranch]]
        : f \in {FileAbsent, File(DocOther)}}

\* the second repository of the fleet takes fewer shapes
SecondRepoConfigs ==
    {c \in RepoConfigs :
        /\ c.hooks = HookPages(<<<<OtherHook>>>>)
        /\ c.branches[c.DefaultBranch] = Unprotected
        /\ c.branches["master"].exists
        /\ c.Contributing \in {File(DocDCO), FileAbsent}}

\* the pages Repositories.ListByOrg serves for each organization
OrgLayouts ==
    {[o \in {"o1", "o2"} |-> IF o = "o1" THEN <<<<"r1">>, <<"r2">>>> ELSE <<<<>>>>],
     [o \in {"o1", "o2"} |-> IF o = "o1" THEN <<<<"r1">>>> ELSE <<<<"r2">>>>]}

\* the answers of a call: the remote answers from its state, answers another
\* error status, or the transport fails and there is no response
Outcomes == {"ok", "error", "noresp"}

----------------------------------------------------------------------------
(* pkg/register: the sweep                                                 *)

rvars == <<repos, orgRepos, hooks, protection, dryRun, reg, loop, actor>>

\* a remote call of the sweep, as issued
Call(op, target, branch, out, body) ==
    [op |-> op, target |-> target, branch |-> branch, out |-> out, body |-> body]
Called(s, c) == [s EXCEPT !.calls = Append(@, c)]

\* Register returns err to autoregister, which logs it and waits for the next tick
Return(s, err) ==
    [s EXCEPT !.pc = "idle", !.err = err, !.result = IF err = "nil" THEN "ok" ELSE "error"]

\* the step of the loop over organizations
NextOrg(s) ==
    IF s.org < Len(Organizations)
    THEN [s EXCEPT !.org = @ + 1, !.page = 0, !.repos = <<>>, !.i = 0, !.pc = "listOrgRepos"]
    ELSE Return(s, "nil")

\* the step of the loop over the repositories of an organization
NextRepo(s) ==
    IF s.i < Len(s.repos)
    THEN [s EXCEPT !.i = @ + 1, !.pc = "getContributing"]
    ELSE NextOrg(s)

\* a mutating call is issued whatever the dry-run flag says
ShouldAddIgnoringDryRun(has, dry) == ~has

\* if !has { log; if !dryRun { add } }
ShouldAdd(has, dry) == ~has /\ ~dry

\* admin enforcement switched on whatever the existing protection says
MergedRequestForcingAdmins(existing) ==
    LET checks == IF existing.RequiredStatusChecks = Nil
                  THEN Checks(TRUE, <<>>)
                  ELSE existing.RequiredStatusChecks
    IN [EnforceAdmins |-> TRUE,
        RequiredStatusChecks |->
            [checks EXCEPT !.Contexts = Append(@, SignOffCheckerContext)],
        RequiredPullRequestReviews |-> Nil,
        Restrictions |-> Nil]

\* the required contexts replaced by the fixed context
MergedRequestReplacing(existing) ==
    [EnforceAdmins |-> existing.EnforceAdmins.Enabled,
     RequiredStatusChecks |-> Checks(FALSE, <<SignOffCheckerContext>>),
     RequiredPullRequestReviews |-> Nil,
     Restrictions |-> Nil]

\* the github.ProtectionRequest addBranchProtection builds from existing protection
MergedRequest(existing) ==
    LET checks == IF existing.RequiredStatusChecks = Nil
                  THEN Checks(FALSE, <<>>)
                  ELSE existing.RequiredStatusChecks
    IN [EnforceAdmins |-> existing.EnforceAdmins.Enabled,
        RequiredStatusChecks |->
            [checks EXCEPT !.Contexts = Append(@, SignOffCheckerContext)],
        RequiredPullRequestReviews |-> Nil,
        Restrictions |-> Nil]

\* the defaults with strict status checks
DefaultRequestStrict ==
    [EnforceAdmins |-> TRUE,
     RequiredStatusChecks |-> Checks(TRUE, <<SignOffCheckerContext>>),
     RequiredPullRequestReviews |-> Nil,
     Restrictions |-> Nil]

\* the github.ProtectionRequest addBranchProtection sends when there is no protection
DefaultRequest ==
    [EnforceAdmins |-> TRUE,
     RequiredStatusChecks |-> Checks(FALSE, <<SignOffCheckerContext>>),
     RequiredPullRequestReviews |-> Nil,
     Restrictions |-> Nil]

\* the branch addBranchProtection writes
WriteBranch(repo) == "master"

\* the protection of a branch after a successful UpdateBranchProtection
Applied(request) ==
    Protected(request.EnforceAdmins, request.RequiredStatusChecks,
              request.RequiredPullRequestReviews, request.Restrictions)

\* the answer of ListRequiredStatusChecksContexts for a branch
RequiredContexts(prot) ==
    IF prot.protected /\ prot.RequiredStatusChecks # Nil
    THEN [status |-> StatusOK, contexts |-> prot.RequiredStatusChecks.Contexts]
    ELSE [status |-> StatusNotFound, contexts |-> <<>>]

\* autoregister: the immediate start or a tick of the ticker calls Register
autoregister ==
    /\ reg.pc = "idle"
    /\ reg' = [reg EXCEPT !.pc = "listOrgRepos", !.previous = reg.result, !.result = "running",
                          !.org = 1, !.page = 0, !.repos = <<>>, !.i = 0, !.hookPage = 0,
                          !.request = Nil, !.err = "nil", !.calls = <<>>,
                          !.before = [hooks |-> hooks, protection |-> protection]]
    /\ UNCHANGED <<repos, orgRepos, hooks, protection, dryRun>>

\* listOrgRepos: one Repositories.ListByOrg call
listOrgRepos(out) ==
    LET org == Organizations[reg.org]
        pages == orgRepos[org]
        p == IF reg.page = 0 THEN 1 ELSE reg.page
        NextPage == IF p < Len(pages) THEN p + 1 ELSE 0
        result == reg.repos \o pages[p]
        s == Called(reg, Call("ListByOrg", org, "", out, Nil))
    IN /\ reg.pc = "listOrgRepos"
       /\ IF out # "ok"
          THEN reg' = Return(s, "Error getting repositories for organization")
          ELSE IF NextPage # 0
          THEN reg' = [s EXCEPT !.repos = result, !.page = NextPage]
          ELSE IF result = <<>>
          THEN reg' = NextOrg([s EXCEPT !.repos = result])
          ELSE reg' = [s EXCEPT !.repos = result, !.i = 1, !.pc = "getContributing"]
       /\ UNCHANGED <<repos, orgRepos, hooks, protection, dryRun>>

\* getContributing and the isDCO filter of Register
getContributing(out) ==
    LET repo == reg.repos[reg.i]
        file == repos[repo].Contributing
        s == Called(reg, Call("GetContents", repo, "", out, Nil))
    IN /\ reg.pc = "getContributing"
       /\ IF out = "ok" /\ file.status = StatusNotFound
          THEN reg' = NextRepo(s)                 \* "", nil; isDCO("") is false
          ELSE IF out # "ok"
          THEN reg' = Return(s, "Error getting CONTRIBUTING.md")
          ELSE IF ~isDCO(DecodeString(file.content))
          THEN reg' = NextRepo(s)
          ELSE reg' = [s EXCEPT !.pc = "hasSignOffHook", !.hookPage = 0]
       /\ UNCHANGED <<repos, orgRepos, hooks, protection, dryRun>>

\* the hook is added whatever hasSignOffHook returned
AfterHasHookUngated(s, hasHook) ==
    IF ShouldAdd(FALSE, dryRun)
    THEN [s EXCEPT !.pc = "addSignOffHook"]
    ELSE [s EXCEPT !.pc = "hasBranchProtection"]

\* Register after hasSignOffHook returned
AfterHasHook(s, hasHook) ==
    IF ShouldAdd(hasHook, dryRun)
    THEN [s EXCEPT !.pc = "addSignOffHook"]
    ELSE [s EXCEPT !.pc = "hasBranchProtection"]

\* hasSignOffHook reading every page before it answers
hasSignOffHookReadingOn(out) ==
    LET repo == reg.repos[reg.i]
        listing == hooks[repo]
        p == IF reg.hookPage = 0 THEN 1 ELSE reg.hookPage
        NextPage == IF p < Len(listing.pages) THEN p + 1 ELSE 0
        s == Called(reg, Call("ListHooks", repo, "", out, Nil))
    IN /\ reg.pc = "hasSignOffHook"
       /\ IF out = "ok" /\ ~listing.access
          THEN reg' = AfterHasHook(s, FALSE)
          ELSE IF out # "ok"
          THEN reg' = Return(s, "Error listing hooks")
          ELSE IF NextPage # 0
          THEN reg' = [s EXCEPT !.hookPage = NextPage]
          ELSE reg' = AfterHasHook(s, \E q \in 1..Len(listing.pages) :
                                         \E k \in 1..Len(listing.pages[q]) :
                                             listing.pages[q][k].Config.url = WebhookURL)
       /\ UNCHANGED <<repos, orgRepos, hooks, protection, dryRun>>

hasSignOffHookFirstPageOnly(out) ==
    LET repo == reg.repos[reg.i]
        listing == hooks[repo]
        page == listing.pages[1]
        s == Called(reg, Call("ListHooks", repo, "", out, Nil))
    IN /\ reg.pc = "hasSignOffHook"
       /\ IF out = "ok" /\ ~listing.access
          THEN reg' = AfterHasHook(s, FALSE)
          ELSE IF out # "ok"
          THEN reg' = Return(s, "Error listing hooks")
          ELSE reg' = AfterHasHook(s, \E k \in 1..Len(page) : page[k].Config.url = WebhookURL)
       /\ UNCHANGED <<repos, orgRepos, hooks, protection, dryRun>>

\* hasSignOffHook with the err check ahead of the 404 check
hasSignOffHookErrorOn404(out) ==
    LET repo == reg.repos[reg.i]
        listing == hooks[repo]
        p == IF reg.hookPage = 0 THEN 1 ELSE reg.hookPage
        NextPage == IF p < Len(listing.pages) THEN p + 1 ELSE 0
        page == listing.pages[p]
        s == Called(reg, Call("ListHooks", repo, "", out, Nil))
    IN /\ reg.pc = "hasSignOffHook"
       /\ IF out # "ok" \/ ~listing.access
          THEN reg' = Return(s, "Error listing hooks")
          ELSE IF \E k \in 1..Len(page) : page[k].Config.url = WebhookURL
          THEN reg' = AfterHasHook(s, TRUE)
          ELSE IF NextPage = 0
          THEN reg' = AfterHasHook(s, FALSE)
          ELSE reg' = [s EXCEPT !.hookPage = NextPage]
       /\ UNCHANGED <<repos, orgRepos, hooks, protection, dryRun>>

\* hasSignOffHook: one Repositories.ListHooks call
hasSignOffHook(out) ==
    LET repo == reg.repos[reg.i]
        listing == hooks[repo]
        p == IF reg.hookPage = 0 THEN 1 ELSE reg.hookPage
        NextPage == IF p < Len(listing.pages) THEN p + 1 ELSE 0
        page == listing.pages[p]
        s == Called(reg, Call("ListHooks", repo, "", out, Nil))
    IN /\ reg.pc = "hasSignOffHook"
       /\ IF out = "ok" /\ ~listing.access
          THEN reg' = AfterHasHook(s, FALSE)      \* 404: false, nil
          ELSE IF out # "ok"
          THEN reg' = Return(s, "Error listing hooks")
          ELSE IF \E k \in 1..Len(page) : page[k].Config.url = WebhookURL
          THEN reg' = AfterHasHook(s, TRUE)
          ELSE IF NextPage = 0
          THEN reg' = AfterHasHook(s, FALSE)
          ELSE reg' = [s EXCEPT !.hookPage = NextPage]
       /\ UNCHANGED <<repos, orgRepos, hooks, protection, dryRun>>

\* the new hook takes the place of the hooks the repository had
addSignOffHookReplacing(out) ==
    LET repo == reg.repos[reg.i]
        listing == hooks[repo]
        hook == NewHook(WebhookURL, WebhookSecret)
        ok == out = "ok" /\ listing.access
        s == Called(reg, Call("CreateHook", repo, "", IF ok THEN "ok" ELSE "error", hook))
    IN /\ reg.pc = "addSignOffHook"
       /\ IF ~ok
          THEN /\ reg' = Return(s, "Error registering webhook")
               /\ hooks' = hooks
          ELSE /\ reg' = [s EXCEPT !.pc = "hasBranchProtection"]
               /\ hooks' = [hooks EXCEPT ![repo].pages = <<<<hook>>>>]
       /\ UNCHANGED <<repos, orgRepos, protection, dryRun>>

\* addSignOffHook: the Repositories.CreateHook call
addSignOffHook(out) ==
    LET repo == reg.repos[reg.i]
        listing == hooks[repo]
        hook == NewHook(WebhookURL, WebhookSecret)
        last == Len(listing.pages)
        ok == out = "ok" /\ listing.access
        s == Called(reg, Call("CreateHook", repo, "", IF ok THEN "ok" ELSE "error", hook))
    IN /\ reg.pc = "addSignOffHook"
       /\ IF ~ok
          THEN /\ reg' = Return(s, "Error registering webhook")
               /\ hooks' = hooks
          ELSE /\ reg' = [s EXCEPT !.pc = "hasBranchProtection"]
               /\ hooks' = [hooks EXCEPT ![repo].pages =
                              IF Len(@[last]) < PerPage
                              THEN [@ EXCEPT ![last] = Append(@, hook)]
                              ELSE Append(@, <<hook>>)]
       /\ UNCHANGED <<repos, orgRepos, protection, dryRun>>

\* Register after hasBranchProtection returned
AfterHasProtection(s, hasProtection) ==
    IF ShouldAdd(hasProtection, dryRun)
    THEN [s EXCEPT !.pc = "addBranchProtection"]
    ELSE NextRepo(s)

\* hasBranchProtection: the Repositories.ListRequiredStatusChecksContexts call
hasBranchProtection(out) ==
    LET repo == reg.repos[reg.i]
        branch == repos[repo].DefaultBranch
        answer == RequiredContexts(protection[repo][branch])
        s == Called(reg, Call("ListRequiredStatusChecksContexts", repo, branch, out, Nil))
        has == \E k \in 1..Len(answer.contexts) : answer.contexts[k] = SignOffCheckerContext
    IN /\ reg.pc = "hasBranchProtection"
       /\ IF out = "ok" /\ answer.status = StatusNotFound
          THEN reg' = AfterHasProtection(s, FALSE)      \* 404: false, nil
          ELSE IF out # "ok"
          THEN reg' = Return(s, "Error getting branch protection configuration")
          ELSE reg' = AfterHasProtection(s, has)
       /\ UNCHANGED <<repos, orgRepos, hooks, protection, dryRun>>

\* addBranchProtection: the Repositories.GetBranchProtection call and the request built from it
addBranchProtection(out) ==
    LET repo == reg.repos[reg.i]
        branch == repos[repo].DefaultBranch
        existing == protection[repo][branch]
        s == Called(reg, Call("GetBranchProtection", repo, branch, out, existing))
    IN /\ reg.pc = "addBranchProtection"
       /\ IF out = "error"
          THEN reg' = Return(s, "Error getting branch protection configuration")
          ELSE IF out = "noresp"
          \* err != nil and resp == nil: resp.StatusCode dereferences nil, the process dies
          THEN reg' = [s EXCEPT !.pc = "crashed", !.result = "crashed"]
          ELSE IF ~existing.protected
          THEN reg' = [s EXCEPT !.pc = "UpdateBranchProtection", !.request = DefaultRequest]
          ELSE reg' = [s EXCEPT !.pc = "UpdateBranchProtection",
                                !.request = MergedRequest(existing)]
       /\ UNCHANGED <<repos, orgRepos, hooks, protection, dryRun>>

\* the write is built from the protection the branch has when it is written
UpdateBranchProtectionRereading(out) ==
    LET repo == reg.repos[reg.i]
        branch == WriteBranch(repo)
        current == protection[repo][branch]
        request == IF current.protected THEN MergedRequest(current) ELSE DefaultRequest
        merged == IF current.protected
                  THEN [current EXCEPT !.RequiredStatusChecks = request.RequiredStatusChecks]
                  ELSE Applied(request)
        ok == out = "ok" /\ current.exists
        s == Called(reg, Call("UpdateBranchProtection", repo, branch,
                              IF ok THEN "ok" ELSE "error", request))
    IN /\ reg.pc = "UpdateBranchProtection"
       /\ IF ~ok
          THEN /\ reg' = Return(s, "Error updating branch protection configuration")
               /\ protection' = protection
          ELSE /\ reg' = NextRepo(s)
               /\ protection' = [protection EXCEPT ![repo][branch] = merged]
       /\ UNCHANGED <<repos, orgRepos, hooks, dryRun>>

\* addBranchProtection: the Repositories.UpdateBranchProtection call
UpdateBranchProtection(out) ==
    LET repo == reg.repos[reg.i]
        branch == WriteBranch(repo)
        ok == out = "ok" /\ protection[repo][branch].exists
        s == Called(reg, Call("UpdateBranchProtection", repo, branch,
                              IF ok THEN "ok" ELSE "error", reg.request))
    IN /\ reg.pc = "UpdateBranchProtection"
       /\ IF ~ok
          THEN /\ reg' = Return(s, "Error updating branch protection configuration")
               /\ protection' = protection
          ELSE /\ reg' = NextRepo(s)
               /\ protection' = [protection EXCEPT ![repo][branch] = Applied(reg.request)]
       /\ UNCHANGED <<repos, orgRepos, hooks, dryRun>>

RegIdle ==
    [pc |-> "idle", result |-> "none", previous |-> "none", org |-> 0, page |-> 0,
     repos |-> <<>>, i |-> 0, hookPage |-> 0, request |-> Nil, err |-> "nil",
     calls |-> <<>>, before |-> Nil]

RInit ==
    /\ orgRepos \in OrgLayouts
    /\ \E c1 \in RepoConfigs, c2 \in SecondRepoConfigs :
         LET c == [r \in RepoNames |-> IF r = "r1" THEN c1 ELSE c2]
         IN /\ repos = [r \in RepoNames |->
                           [Name |-> r, DefaultBranch |-> c[r].DefaultBranch,
                            Contributing |-> c[r].Contributing]]
            /\ hooks = [r \in RepoNames |-> c[r].hooks]
            /\ protection = [r \in RepoNames |-> c[r].branches]
    /\ dryRun \in BOOLEAN
    /\ reg = RegIdle


----------------------------------------------------------------------------
(* Another actor of the hosting service                                    *)

ExternalContext == "ci/lint"

\* the protection of a branch after a required context was added to it
WithContext(prot, ctx) ==
    IF ~prot.protected
    THEN Protected(FALSE, Checks(FALSE, <<ctx>>), Nil, Nil)
    ELSE IF prot.RequiredStatusChecks = Nil
    THEN [prot EXCEPT !.RequiredStatusChecks = Checks(FALSE, <<ctx>>)]
    ELSE [prot EXCEPT !.RequiredStatusChecks.Contexts = Append(@, ctx)]

\* another actor adds a required context to a branch; the history keeps the
\* calls the running sweep had issued by then
ExternalChange(r, b) ==
    /\ Len(actor) < MaxExternalChanges
    /\ protection[r][b].exists
    /\ \A k \in 1..Len(RequiredContexts(protection[r][b]).contexts) :
           RequiredContexts(protection[r][b]).contexts[k] # ExternalContext
    /\ protection' = [protection EXCEPT ![r][b] = WithContext(@, ExternalContext)]
    /\ actor' = Append(actor, [repo |-> r, branch |-> b, calls |-> reg.calls])
    /\ UNCHANGED <<repos, orgRepos, hooks, dryRun, reg, loop>>

----------------------------------------------------------------------------
(* cmd/sign-off-checker: the loop of autoregister                          *)

\* the goroutine before its first statement; orgs is --autoregister
LoopStart(orgs) ==
    [pc |-> "start", orgs |-> orgs, ticker |-> FALSE, immediate |-> 0, tickerC |-> 0,
     inflight |-> 0, first |-> FALSE]

\* autoregister up to the for loop: return when no organization is
\* configured, else fill immediate and create the ticker
autoregisterSetup ==
    /\ loop.pc = "start"
    /\ IF Len(loop.orgs) = 0
       THEN loop' = [loop EXCEPT !.pc = "returned"]
       ELSE loop' = [loop EXCEPT !.pc = "select", !.immediate = 1, !.ticker = TRUE]
    /\ UNCHANGED <<repos, orgRepos, hooks, protection, dryRun, reg>>

\* the runtime sends on ticker.C, a channel of capacity 1, and drops the tick
\* when the channel is full
Tick ==
    /\ loop.ticker
    /\ reg.pc # "crashed"
    /\ loop.tickerC = 0
    /\ loop' = [loop EXCEPT !.tickerC = 1]
    /\ UNCHANGED <<repos, orgRepos, hooks, protection, dryRun, reg>>

\* every received value starts Register in a goroutine of its own
selectCaseSpawning(ch) ==
    /\ loop.pc = "select"
    /\ loop[ch] = 1
    /\ loop' = [loop EXCEPT ![ch] = 0, !.inflight = @ + 1, !.first = TRUE]
    /\ reg' = [reg EXCEPT !.pc = "listOrgRepos", !.previous = reg.result, !.result = "running",
                          !.org = 1, !.page = 0, !.repos = <<>>, !.i = 0, !.hookPage = 0,
                          !.request = Nil, !.err = "nil", !.calls = <<>>,
                          !.before = [hooks |-> hooks, protection |-> protection]]
    /\ UNCHANGED <<repos, orgRepos, hooks, protection, dryRun>>

\* select: one of the ready cases is received, then Register is called
selectCase(ch) ==
    /\ loop.pc = "select"
    /\ loop[ch] = 1
    /\ loop' = [loop EXCEPT ![ch] = 0, !.pc = "Register", !.inflight = @ + 1, !.first = TRUE]
    /\ autoregister

\* the loop ends when Register returned an error
afterRegisterReturning ==
    /\ loop.pc = "Register"
    /\ reg.pc = "idle"
    /\ loop' = [loop EXCEPT !.pc = IF reg.result = "error" THEN "returned" ELSE "select",
                            !.inflight = @ - 1]
    /\ UNCHANGED <<repos, orgRepos, hooks, protection, dryRun, reg>>

\* Register has returned: log the error or the duration, back to the select
afterRegister ==
    /\ loop.pc = "Register"
    /\ reg.pc = "idle"
    /\ loop' = [loop EXCEPT !.pc = "select", !.inflight = @ - 1]
    /\ UNCHANGED <<repos, orgRepos, hooks, protection, dryRun, reg>>

----------------------------------------------------------------------------

vars == <<prCommits, statuses, handler, repos, orgRepos, hooks, protection, dryRun, reg, loop, actor>>

\* no sweep: automatic registration is disabled
NoFleet ==
    /\ orgRepos = [o \in {"o1", "o2"} |-> <<<<>>>>]
    /\ repos = [r \in RepoNames |->
                   [Name |-> r, DefaultBranch |-> "master", Contributing |-> FileAbsent]]
    /\ hooks = [r \in RepoNames |-> HookPages(<<<<>>>>)]
    /\ protection = [r \in RepoNames |-> [b \in Branches |-> NoBranch]]
    /\ dryRun = FALSE
    /\ reg = RegIdle
    /\ loop = LoopStart(<<>>)
    /\ actor = <<>>

\* no request is delivered
NoRequests ==
    /\ prCommits = [p \in PRs |-> <<<<>>>>]
    /\ statuses = [c \in SHAs |-> NoStatus]
    /\ handler = [h \in Handlers |-> Idle]

WInit ==
    /\ prCommits \in [PRs -> Listings]
    /\ statuses = [c \in SHAs |-> NoStatus]
    /\ handler = [h \in Handlers |-> Idle]
    /\ NoFleet

WNext ==
    \/ \E h \in Handlers, r \in Requests : ServeHTTP(h, r) /\ UNCHANGED rvars
    \/ \E h \in Handlers, fails \in BOOLEAN : ListCommits(h, fails) /\ UNCHANGED rvars
    \/ \E h \in Handlers, fails \in BOOLEAN : CreateStatus(h, fails) /\ UNCHANGED rvars

\* the webhook handler alone
WebhookSpec == WInit /\ [][WNext]_vars


\* two handlers run at once, the way net/http serves each request in a
\* goroutine of its own
ConcurrentHandlers == {"h1", "h2"}
ConcurrentPRs == {"pr1", "pr2"}

\* commits of the repository; a commit can be part of several pull requests
CommitA == [SHA |-> 1, Message |-> MsgSigned]
CommitB == [SHA |-> 2, Message |-> MsgTypo]
CommitC == [SHA |-> 3, Message |-> MsgSigned]

\* the one-page commit listings a pull request may have
BranchListings == {<<<<CommitA>>>>, <<<<CommitA, CommitB>>>>, <<<<CommitC>>>>}

\* a pull_request event for pull request p, signed with the shared secret
PullRequestEvent(p) ==
    [sig |-> HMAC(Secret, [kind |-> "pull_request", pr |-> p]),
     body |-> [kind |-> "pull_request", pr |-> p],
     hooktype |-> "pull_request"]

\* the head branch of a pull request is pushed: its commit listing changes
Push(p, listing) ==
    /\ listing # prCommits[p]
    /\ prCommits' = [prCommits EXCEPT ![p] = listing]
    /\ UNCHANGED <<statuses, handler>>

ConcurrentInit ==
    /\ prCommits \in [ConcurrentPRs -> BranchListings]
    /\ statuses = [c \in SHAs |-> NoStatus]
    /\ handler = [h \in ConcurrentHandlers |-> Idle]
    /\ NoFleet

ConcurrentNext ==
    \/ \E p \in ConcurrentPRs, listing \in BranchListings : Push(p, listing) /\ UNCHANGED rvars
    \/ \E h \in ConcurrentHandlers, p \in ConcurrentPRs :
          ServeHTTP(h, PullRequestEvent(p)) /\ UNCHANGED rvars
    \/ \E h \in ConcurrentHandlers, fails \in BOOLEAN : ListCommits(h, fails) /\ UNCHANGED rvars
    \/ \E h \in ConcurrentHandlers, fails \in BOOLEAN : CreateStatus(h, fails) /\ UNCHANGED rvars

\* two requests handled at once while pull requests are pushed
ConcurrentSpec == ConcurrentInit /\ [][ConcurrentNext]_vars

\* the sweeps alone, each started at any time after the one before has returned
RegInit == RInit /\ NoRequests /\ loop = LoopStart(Organizations) /\ actor = <<>>

RegNext ==
    \/ autoregister /\ UNCHANGED <<wvars, loop, actor>>
    \/ \E out \in Outcomes : listOrgRepos(out) /\ UNCHANGED <<wvars, loop, actor>>
    \/ \E out \in Outcomes : getContributing(out) /\ UNCHANGED <<wvars, loop, actor>>
    \/ \E out \in Outcomes : hasSignOffHook(out) /\ UNCHANGED <<wvars, loop, actor>>
    \/ \E out \in Outcomes : addSignOffHook(out) /\ UNCHANGED <<wvars, loop, actor>>
    \/ \E out \in Outcomes : hasBranchProtection(out) /\ UNCHANGED <<wvars, loop, actor>>
    \/ \E out \in Outcomes : addBranchProtection(out) /\ UNCHANGED <<wvars, loop, actor>>
    \/ \E out \in Outcomes : UpdateBranchProtection(out) /\ UNCHANGED <<wvars, loop, actor>>

\* the sweep alone
RegisterSpec == RegInit /\ [][RegNext]_vars

\* a fleet of one DCO repository without hook, its default branch protected
\* as prot says, and one repository without CONTRIBUTING.md
SmallFleet(prot) ==
    /\ orgRepos = [o \in {"o1", "o2"} |-> IF o = "o1" THEN <<<<"r1">>>> ELSE <<<<"r2">>>>]
    /\ repos = [r \in RepoNames |->
                   [Name |-> r, DefaultBranch |-> "master",
                    Contributing |-> IF r = "r1" THEN File(DocDCO) ELSE FileAbsent]]
    /\ hooks = [r \in RepoNames |-> HookPages(<<<<>>>>)]
    /\ protection = [r \in RepoNames |->
                        [b \in Branches |-> IF b # "master" THEN NoBranch
                                            ELSE IF r = "r1" THEN prot ELSE Unprotected]]
    /\ dryRun = FALSE
    /\ reg = RegIdle

LoopInit ==
    /\ SmallFleet(Unprotected) /\ NoRequests /\ actor = <<>>
    /\ loop \in {LoopStart(<<>>), LoopStart(Organizations)}

LoopNext ==
    \/ autoregisterSetup /\ UNCHANGED <<wvars, actor>>
    \/ Tick /\ UNCHANGED <<wvars, actor>>
    \/ \E ch \in {"immediate", "tickerC"} : selectCase(ch) /\ UNCHANGED <<wvars, actor>>
    \/ afterRegister /\ UNCHANGED <<wvars, actor>>
    \/ \E out \in Outcomes : listOrgRepos(out) /\ UNCHANGED <<wvars, loop, actor>>
    \/ \E out \in Outcomes : getContributing(out) /\ UNCHANGED <<wvars, loop, actor>>
    \/ \E out \in Outcomes : hasSignOffHook(out) /\ UNCHANGED <<wvars, loop, actor>>
    \/ \E out \in Outcomes : addSignOffHook(out) /\ UNCHANGED <<wvars, loop, actor>>
    \/ \E out \in Outcomes : hasBranchProtection(out) /\ UNCHANGED <<wvars, loop, actor>>
    \/ \E out \in Outcomes : addBranchProtection(out) /\ UNCHANGED <<wvars, loop, actor>>
    \/ \E out \in Outcomes : UpdateBranchProtection(out) /\ UNCHANGED <<wvars, loop, actor>>

\* the goroutine of autoregister: its loop, its ticker and the sweeps it runs
LoopSpec == LoopInit /\ [][LoopNext]_vars

\* a fleet whose DCO repository has a default branch that is unprotected or
\* requires ci/build
RaceInit ==
    /\ \E prot \in {Unprotected, ProtCI} : SmallFleet(prot)
    /\ NoRequests
    /\ actor = <<>>
    /\ loop = LoopStart(Organizations)

RaceNext ==
    \/ \E r \in RepoNames, b \in Branches : ExternalChange(r, b) /\ UNCHANGED wvars
    \/ autoregister /\ UNCHANGED <<wvars, loop, actor>>
    \/ \E out \in Outcomes : listOrgRepos(out) /\ UNCHANGED <<wvars, loop, actor>>
    \/ \E out \in Outcomes : getContributing(out) /\ UNCHANGED <<wvars, loop, actor>>
    \/ \E out \in Outcomes : hasSignOffHook(out) /\ UNCHANGED <<wvars, loop, actor>>
    \/ \E out \in Outcomes : addSignOffHook(out) /\ UNCHANGED <<wvars, loop, actor>>
    \/ \E out \in Outcomes : hasBranchProtection(out) /\ UNCHANGED <<wvars, loop, actor>>
    \/ \E out \in Outcomes : addBranchProtection(out) /\ UNCHANGED <<wvars, loop, actor>>
    \/ \E out \in Outcomes : UpdateBranchProtection(out) /\ UNCHANGED <<wvars, loop, actor>>

\* the sweeps next to another actor that changes branch protections
RaceSpec == RaceInit /\ [][RaceNext]_vars

----------------------------------------------------------------------------
(* Properties of the webhook handler                                       *)

\* the messages of the model with, and without, a line that starts with
\* "signed-off-by:" in some capitalisation
SignedMessages == {MsgSigned}
UnsignedMessages == {MsgTypo, MsgIndented}

\* the commits of the pull request a handler works on, over all pages
PRCommits(h) == Flatten(prCommits[handler[h].pr])
SomeUnsigned(commits) == \E i \in 1..Len(commits) : commits[i].Message \in UnsignedMessages
AllSigned(commits) == \A i \in 1..Len(commits) : commits[i].Message \in SignedMessages
MessageOf(commits, sha) == (CHOOSE c \in {commits[i] : i \in 1..Len(commits)} : c.SHA = sha).Message

\* C1: when some commit of the pull request has no line matching
\* ^signed-off-by: every status the handler creates is a failure with the
\* description "A commit in PR is missing Signed-off-by", also on signed commits.
C1_UnsignedCommitFailsAll ==
    \A h \in Handlers :
        (handler[h].pr # None /\ SomeUnsigned(PRCommits(h))) =>
            \A i \in 1..Len(handler[h].created) :
                /\ handler[h].created[i].status.State = "failure"
                /\ handler[h].created[i].status.Description
                       = "A commit in PR is missing Signed-off-by"

\* a failure status was created on a commit that is itself signed
C1_Witness ==
    \E h \in Handlers :
        /\ handler[h].pr # None
        /\ SomeUnsigned(PRCommits(h))
        /\ \E i \in 1..Len(handler[h].created) :
               MessageOf(PRCommits(h), handler[h].created[i].SHA) \in SignedMessages

\* C2: when the pull request has commits and every commit message has a line
\* matching ^signed-off-by: every status the handler creates is a success.
C2_AllSignedSucceeds ==
    \A h \in Handlers :
        (handler[h].pr # None /\ PRCommits(h) # <<>> /\ AllSigned(PRCommits(h))) =>
            \A i \in 1..Len(handler[h].created) :
                handler[h].created[i].status.State = "success"

\* statuses were created for an all-signed pull request of two pages
C2_Witness ==
    \E h \in Handlers :
        /\ handler[h].pr # None
        /\ AllSigned(PRCommits(h))
        /\ Len(prCommits[handler[h].pr]) = 2
        /\ handler[h].pc = "done"
        /\ Len(handler[h].created) >= 2

\* the orders a commit sequence of length n can be listed in
Orders(n) == {f \in [1..n -> 1..n] : \A i, j \in 1..n : f[i] = f[j] => i = j}
Permuted(commits, f) == [i \in 1..Len(commits) |-> commits[f[i]]]

\* C3: the verdict is order-independent: the scan of any permutation of the
\* listed commits ends with the signMissing the handler computed.
C3_VerdictOrderIndependent ==
    \A h \in Handlers :
        handler[h].listed =>
            \A f \in Orders(Len(handler[h].allCommits)) :
                SignMissing(Permuted(handler[h].allCommits, f)) = handler[h].signMissing

\* a verdict was computed for a listing whose first commit is signed and a later one is not
C3_Witness ==
    \E h \in Handlers :
        /\ handler[h].listed
        /\ Len(handler[h].allCommits) >= 2
        /\ handler[h].allCommits[1].Message \in SignedMessages
        /\ SomeUnsigned(handler[h].allCommits)

\* the SHAs of a commit sequence, in order
SHAsOf(commits) == [i \in 1..Len(commits) |-> commits[i].SHA]

\* C4: once the listing has completed, the handler attempts one status
\* creation per commit of every page, in page order, and a failed creation
\* does not stop the attempts for the remaining commits.
C4_OneAttemptPerCommit ==
    \A h \in Handlers :
        handler[h].listed =>
            LET want == SHAsOf(PRCommits(h))
                got == handler[h].attempts
            IN /\ Len(got) <= Len(want)
               /\ got = SubSeq(want, 1, Len(got))
               /\ handler[h].pc = "done" => got = want

\* the handler finished a two-page pull request although the creation for its first commit failed
C4_Witness ==
    \E h \in Handlers :
        /\ handler[h].listed
        /\ handler[h].pc = "done"
        /\ Len(prCommits[handler[h].pr]) = 2
        /\ Len(handler[h].attempts) >= 3
        /\ handler[h].created # <<>>
        /\ handler[h].created[1].SHA # handler[h].attempts[1]

\* the request carries the HMAC of its own body under the configured secret
SignatureValid(r) == r.sig.key = Secret /\ r.sig.body = r.body
\* the event type is one the library knows and the body is JSON
Decodable(r) == r.hooktype \in {"pull_request", "ping", "push"} /\ r.body.kind # "garbage"

\* C5: a request whose signature or payload is invalid is answered 400 and
\* causes no call of the hosting API; a request that passes both is never
\* answered 400.
C5_RejectWithoutCalls ==
    \A h \in Handlers :
        handler[h].pc # "idle" =>
            IF SignatureValid(handler[h].req) /\ Decodable(handler[h].req)
            THEN handler[h].resp # <<StatusBadRequest>>
            ELSE handler[h].resp = <<StatusBadRequest>> /\ handler[h].calls = <<>>

\* a pull_request event signed with the secret over another body was rejected
C5_Witness ==
    \E h \in Handlers :
        /\ handler[h].pc # "idle"
        /\ handler[h].req.hooktype = "pull_request"
        /\ handler[h].req.body.kind = "pull_request"
        /\ handler[h].req.sig.key = Secret
        /\ handler[h].req.sig.body # handler[h].req.body
        /\ handler[h].resp = <<StatusBadRequest>>

\* C18: a request that passes validation and decoding and whose event is not
\* a pull_request event (a ping, or another type the library knows) is
\* answered without an error status and causes no call of the hosting API.
C18_OtherEventsDropped ==
    \A h \in Handlers :
        (/\ handler[h].pc # "idle"
         /\ SignatureValid(handler[h].req)
         /\ Decodable(handler[h].req)
         /\ handler[h].req.hooktype # "pull_request") =>
            /\ handler[h].pc = "done"
            /\ handler[h].calls = <<>>
            /\ handler[h].created = <<>>
            /\ handler[h].resp = <<StatusOK>>
            /\ ~handler[h].panicked

\* a push event that carries the payload of a pull request was dropped
C18_Witness ==
    \E h \in Handlers :
        /\ handler[h].pc = "done"
        /\ SignatureValid(handler[h].req)
        /\ handler[h].req.hooktype = "push"
        /\ handler[h].req.body.kind = "pull_request"
        /\ handler[h].resp = <<StatusOK>>

\* a ListCommits call of the handler failed: calls were issued and the listing
\* did not complete
ListingFailed(h) ==
    /\ handler[h].calls # <<>>
    /\ ~handler[h].listed
    /\ handler[h].pc # "ListCommits"

\* C22: when a page of the commit listing fails the handler attempts no
\* status creation, also not for the commits of pages it had fetched, and the
\* request is answered without an error status.
C22_FailedListingPublishesNothing ==
    \A h \in Handlers :
        ListingFailed(h) =>
            /\ handler[h].pc = "done"
            /\ handler[h].attempts = <<>>
            /\ handler[h].created = <<>>
            /\ \A k \in 1..Len(handler[h].calls) : handler[h].calls[k] = "ListCommits"
            /\ handler[h].resp = <<StatusOK>>
            /\ \A c \in SHAs : statuses[c] = NoStatus

\* the second page of a two-page listing failed after the first was fetched
C22_Witness ==
    \E h \in Handlers :
        /\ ListingFailed(h)
        /\ Len(handler[h].calls) = 2
        /\ handler[h].allCommits # <<>>
        /\ handler[h].resp = <<StatusOK>>

\* C29: when the listing of a pull request completes with no commit the
\* handler issues no CreateStatus call and no status is created.
C29_NoCommitsNoStatus ==
    \A h \in Handlers :
        (handler[h].listed /\ PRCommits(h) = <<>>) =>
            /\ handler[h].pc = "done"
            /\ \A k \in 1..Len(handler[h].calls) : handler[h].calls[k] # "CreateStatus"
            /\ handler[h].attempts = <<>>
            /\ \A c \in SHAs : statuses[c] = NoStatus

\* the listing of a pull request without commits completed with one call
C29_Witness ==
    \E h \in Handlers :
        /\ handler[h].listed
        /\ PRCommits(h) = <<>>
        /\ handler[h].calls = <<"ListCommits">>
        /\ handler[h].resp = <<StatusOK>>

----------------------------------------------------------------------------
(* Properties of the sweep                                                 *)

MutatingOps == {"CreateHook", "UpdateBranchProtection"}
NoMutatingCall == \A k \in 1..Len(reg.calls) : reg.calls[k].op \notin MutatingOps
\* the remote state is as it was when the sweep started
RemoteAsBefore ==
    reg.before # Nil => (hooks = reg.before.hooks /\ protection = reg.before.protection)

\* the repositories whose CONTRIBUTING.md contains "Developer Certificate of Origin"
DCORepos == {r \in RepoNames : repos[r].Contributing = File(DocDCO)}
\* the repository has a webhook with the target URL
HasTargetHook(hs, r) ==
    /\ hs[r].access
    /\ \E p \in 1..Len(hs[r].pages) : \E k \in 1..Len(hs[r].pages[p]) :
           hs[r].pages[p][k].Config.url = WebhookURL
\* the required contexts of a branch
ContextsOf(prot) ==
    IF prot.protected /\ prot.RequiredStatusChecks # Nil
    THEN prot.RequiredStatusChecks.Contexts ELSE <<>>
\* the fixed context is among the required status checks of the default branch
HasRequiredContext(ps, r) ==
    \E k \in 1..Len(ContextsOf(ps[r][repos[r].DefaultBranch])) :
        ContextsOf(ps[r][repos[r].DefaultBranch])[k] = SignOffCheckerContext
\* the sweep has issued the call op for repository r
Issued(op, r) == \E k \in 1..Len(reg.calls) : reg.calls[k].op = op /\ reg.calls[k].target = r

\* C6: in dry-run mode no sweep issues CreateHook or UpdateBranchProtection,
\* and the webhooks and branch protections stay as they were.
C6_DryRunNoMutation == dryRun => (NoMutatingCall /\ RemoteAsBefore)

\* a dry-run sweep finished after checking a DCO repository that lacks hook and protection
C6_Witness ==
    /\ dryRun
    /\ reg.result = "ok"
    /\ \E r \in DCORepos :
          /\ ~HasTargetHook(hooks, r)
          /\ ~HasRequiredContext(protection, r)
          /\ Issued("ListHooks", r)
          /\ Issued("ListRequiredStatusChecksContexts", r)

\* C7: after a non-dry-run sweep that returned no error every DCO repository
\* has a webhook with the target URL and the fixed context among the required
\* status checks of its default branch, whatever that branch is named.
C7_SweepConfiguresDefaultBranch ==
    (~dryRun /\ reg.result = "ok") =>
        \A r \in DCORepos : HasTargetHook(hooks, r) /\ HasRequiredContext(protection, r)

\* C8: a non-dry-run sweep that follows a successful non-dry-run sweep issues
\* no mutating call and leaves the remote state unchanged.
C8_SecondSweepIdle ==
    (~dryRun /\ reg.previous = "ok") => (NoMutatingCall /\ RemoteAsBefore)

\* C9: addBranchProtection writes the default branch, the branch it read and
\* the branch hasBranchProtection checks, so that after a successful write
\* hasBranchProtection holds for the repository.
C9_WritesDefaultBranch ==
    \A k \in 1..Len(reg.calls) :
        reg.calls[k].op = "UpdateBranchProtection" =>
            /\ reg.calls[k].branch = repos[reg.calls[k].target].DefaultBranch
            /\ reg.calls[k].branch = reg.calls[k - 1].branch
            /\ reg.calls[k].out = "ok" => HasRequiredContext(protection, reg.calls[k].target)

\* C10: when the default branch is protected already, the required-context
\* list addBranchProtection writes is the list the branch had, in its order,
\* with the fixed context appended as the last element.
C10_AppendsToExisting ==
    \A k \in 1..Len(reg.calls) :
        LET r == reg.calls[k].target
            old == reg.before.protection[r][repos[r].DefaultBranch]
        IN (reg.calls[k].op = "UpdateBranchProtection" /\ old.protected) =>
               reg.calls[k].body.RequiredStatusChecks.Contexts
                   = ContextsOf(old) \o <<SignOffCheckerContext>>

\* the write for a branch that required ci/build went through with ci/build first
C10_Witness ==
    \E k \in 1..Len(reg.calls) :
        /\ reg.calls[k].op = "UpdateBranchProtection"
        /\ reg.calls[k].out = "ok"
        /\ reg.before.protection[reg.calls[k].target][repos[reg.calls[k].target].DefaultBranch]
               = ProtCI
        /\ reg.calls[k].body.RequiredStatusChecks.Contexts = <<"ci/build", SignOffCheckerContext>>

\* the settings of a protection other than its required-context list
OtherSettings(prot) ==
    [EnforceAdmins |-> prot.EnforceAdmins.Enabled,
     Strict |-> IF prot.RequiredStatusChecks = Nil THEN FALSE
                ELSE prot.RequiredStatusChecks.Strict,
     RequiredPullRequestReviews |-> prot.RequiredPullRequestReviews,
     Restrictions |-> prot.Restrictions]

\* C11: a write of addBranchProtection to the branch it read, when that branch
\* was protected already, leaves every setting other than the required-context
\* list (admin enforcement, strictness, required reviews, push restrictions)
\* as the read found it.
C11_KeepsUnrelatedSettings ==
    \A k \in 1..Len(reg.calls) :
        LET c == reg.calls[k]
        IN (/\ c.op = "UpdateBranchProtection"
            /\ c.out = "ok"
            /\ c.branch = reg.calls[k - 1].branch
            /\ reg.calls[k - 1].body.protected) =>
               OtherSettings(protection[c.target][c.branch])
                   = OtherSettings(reg.calls[k - 1].body)

\* the remote call k of the sweep failed: an error status or no response
Failed(k) == reg.calls[k].out # "ok"

\* C12: a failed remote call of a sweep is the last call of that sweep, and
\* Register has returned an error to autoregister right after it.
C12_FailFast ==
    \A k \in 1..Len(reg.calls) :
        Failed(k) => (k = Len(reg.calls) /\ reg.pc = "idle" /\ reg.result = "error")

\* the calls op the sweep has issued for repository r
CallsOf(op, r) == {k \in 1..Len(reg.calls) : reg.calls[k].op = op /\ reg.calls[k].target = r}

\* C17: when the first page of the hook listing is empty or the listing
\* answers 404, hasSignOffHook returns false and no error after that one call:
\* Register goes on to add the hook, or to the protection check in dry-run
\* mode, and no second page is fetched.
C17_NoHooksIsFalse ==
    LET n == Len(reg.calls)
    IN (/\ n > 0
        /\ reg.calls[n].op = "ListHooks"
        /\ reg.calls[n].out = "ok"
        /\ \/ ~hooks[reg.calls[n].target].access
           \/ hooks[reg.calls[n].target].pages[1] = <<>>) =>
           /\ reg.err = "nil"
           /\ reg.pc = IF dryRun THEN "hasBranchProtection" ELSE "addSignOffHook"
           /\ Cardinality(CallsOf("ListHooks", reg.calls[n].target)) = 1

\* the hook listing of a repository answered 404 and the sweep goes on to add the hook
C17_Witness ==
    /\ reg.calls # <<>>
    /\ reg.calls[Len(reg.calls)].op = "ListHooks"
    /\ reg.calls[Len(reg.calls)].out = "ok"
    /\ ~hooks[reg.calls[Len(reg.calls)].target].access
    /\ reg.pc = "addSignOffHook"

\* C20: CreateHook for a repository directly follows a ListHooks call of the
\* same sweep that found no hook with the target URL on the repository, and
\* GetBranchProtection directly follows a ListRequiredStatusChecksContexts
\* call that found the fixed context missing; CreateHook, GetBranchProtection
\* and UpdateBranchProtection are each issued at most once per repository.
C20_AddOnlyAfterCheck ==
    /\ \A k \in 1..Len(reg.calls) :
         LET c == reg.calls[k]
         IN /\ c.op = "CreateHook" =>
                  /\ k > 1
                  /\ reg.calls[k - 1].op = "ListHooks"
                  /\ reg.calls[k - 1].target = c.target
                  /\ reg.calls[k - 1].out = "ok"
                  /\ ~HasTargetHook(reg.before.hooks, c.target)
            /\ c.op = "GetBranchProtection" =>
                  /\ k > 1
                  /\ reg.calls[k - 1].op = "ListRequiredStatusChecksContexts"
                  /\ reg.calls[k - 1].target = c.target
                  /\ reg.calls[k - 1].out = "ok"
                  /\ ~HasRequiredContext(reg.before.protection, c.target)
            /\ c.op = "UpdateBranchProtection" =>
                  /\ k > 1
                  /\ reg.calls[k - 1].op = "GetBranchProtection"
                  /\ reg.calls[k - 1].target = c.target
    /\ \A r \in RepoNames :
         \A op \in {"CreateHook", "GetBranchProtection", "UpdateBranchProtection"} :
             Cardinality(CallsOf(op, r)) <= 1

\* a sweep added the hook to one repository and skipped it for another that had it
C20_Witness ==
    /\ reg.result = "ok"
    /\ \E r1, r2 \in DCORepos :
          /\ CallsOf("CreateHook", r1) # {}
          /\ CallsOf("ListHooks", r2) # {}
          /\ CallsOf("CreateHook", r2) = {}
          /\ CallsOf("UpdateBranchProtection", r2) # {}

\* the places of the hooks with the target URL in the hook listing of r
TargetHooks(hs, r) ==
    {<<p, k>> \in (1..Len(hs[r].pages)) \X (1..PerPage) :
        k <= Len(hs[r].pages[p]) /\ hs[r].pages[p][k].Config.url = WebhookURL}

\* C21: whatever calls fail over whatever number of sweeps, no repository
\* has more than one webhook with the target URL.
C21_AtMostOneTargetHook ==
    \A r \in RepoNames : Cardinality(TargetHooks(hooks, r)) <= 1

\* the sweep before installed the hook and returned an error after that, and
\* this sweep is past the hook check of the repository without a CreateHook
C21_Witness ==
    /\ reg.previous = "error"
    /\ \E r \in DCORepos :
          /\ \E p \in 1..Len(reg.before.hooks[r].pages) :
                \E k \in 1..Len(reg.before.hooks[r].pages[p]) :
                    reg.before.hooks[r].pages[p][k] = NewHook(WebhookURL, WebhookSecret)
          /\ CallsOf("ListRequiredStatusChecksContexts", r) # {}
          /\ CallsOf("CreateHook", r) = {}
          /\ Cardinality(TargetHooks(hooks, r)) = 1

\* C23: a GetBranchProtection call that fails with anything other than a
\* 404, also one without a response, is the last call of its sweep, and
\* Register returns an error after it: the process does not crash.
C23_FailedReadReturnsError ==
    \A k \in 1..Len(reg.calls) :
        (reg.calls[k].op = "GetBranchProtection" /\ reg.calls[k].out # "ok") =>
            /\ k = Len(reg.calls)
            /\ reg.pc # "crashed"
            /\ reg.pc = "idle"
            /\ reg.result = "error"
            /\ reg.err = "Error getting branch protection configuration"

\* the read of addBranchProtection for call k of the sweep: the protection
\* GetBranchProtection answered with
ReadBefore(k) == reg.calls[k - 1].body

\* C24: when the read finds no protection the one UpdateBranchProtection call
\* that follows carries admin enforcement on, status checks that are not
\* strict and require the fixed context alone, and nothing else.
C24_DefaultsWhenUnprotected ==
    \A k \in 1..Len(reg.calls) :
        (reg.calls[k].op = "UpdateBranchProtection" /\ ~ReadBefore(k).protected) =>
            /\ reg.calls[k].body.EnforceAdmins = TRUE
            /\ reg.calls[k].body.RequiredStatusChecks
                   = [Strict |-> FALSE, Contexts |-> <<"signed-off-by">>]
            /\ reg.calls[k].body.RequiredPullRequestReviews = Nil
            /\ reg.calls[k].body.Restrictions = Nil
            /\ Cardinality(CallsOf("UpdateBranchProtection", reg.calls[k].target)) = 1

\* the defaults were written to a branch that had no protection
C24_Witness ==
    \E k \in 1..Len(reg.calls) :
        /\ reg.calls[k].op = "UpdateBranchProtection"
        /\ reg.calls[k].out = "ok"
        /\ ReadBefore(k) = Unprotected
        /\ protection[reg.calls[k].target][reg.calls[k].branch].EnforceAdmins.Enabled

\* C25: when the read finds a protection the write carries the admin
\* enforcement flag of the read; when the read has no required status checks
\* the written checks are not strict and require the fixed context alone.
C25_CarriesAdminFlag ==
    \A k \in 1..Len(reg.calls) :
        (reg.calls[k].op = "UpdateBranchProtection" /\ ReadBefore(k).protected) =>
            /\ reg.calls[k].body.EnforceAdmins = ReadBefore(k).EnforceAdmins.Enabled
            /\ ReadBefore(k).RequiredStatusChecks = Nil =>
                   reg.calls[k].body.RequiredStatusChecks
                       = [Strict |-> FALSE, Contexts |-> <<"signed-off-by">>]

\* a write followed the read of a protection without admin enforcement and
\* without required status checks
C25_Witness ==
    \E k \in 1..Len(reg.calls) :
        /\ reg.calls[k].op = "UpdateBranchProtection"
        /\ reg.calls[k].out = "ok"
        /\ ReadBefore(k) = ProtNoChecks
        /\ reg.calls[k].body.EnforceAdmins = FALSE

\* the hook check of repository r has returned in this sweep without an error
HookCheckReturned(r) ==
    /\ CallsOf("ListHooks", r) # {}
    /\ \A k \in CallsOf("ListHooks", r) : reg.calls[k].out = "ok"
    /\ ~(reg.pc = "hasSignOffHook" /\ reg.repos[reg.i] = r)

\* Register took the branch of a false answer of hasSignOffHook for r
TookNoHookBranch(r) ==
    \/ reg.pc = "addSignOffHook" /\ reg.repos[reg.i] = r
    \/ CallsOf("CreateHook", r) # {}

\* the first page of the listing with a hook that has the target URL, 0 if none
FirstTargetPage(listing) ==
    LET with == {p \in 1..Len(listing.pages) :
                    \E k \in 1..Len(listing.pages[p]) :
                        listing.pages[p][k].Config.url = WebhookURL}
    IN IF with = {} THEN 0 ELSE CHOOSE p \in with : \A q \in with : p <= q

\* C26: hasSignOffHook answers true exactly when a hook on some page has the
\* target URL (seen outside dry-run mode, where a false answer leads to the
\* hook being added), and it fetches the pages up to the first one with such
\* a hook, or all pages when there is none.
C26_HookMatchAndPaging ==
    \A r \in RepoNames :
        HookCheckReturned(r) =>
            LET listing == reg.before.hooks[r]
                first == FirstTargetPage(listing)
            IN /\ ~dryRun => (TookNoHookBranch(r) <=> first = 0)
               /\ Cardinality(CallsOf("ListHooks", r))
                      = IF ~listing.access THEN 1
                        ELSE IF first # 0 THEN first ELSE Len(listing.pages)

\* a match on the first of two pages ended the listing after one call, and a
\* sweep went on without adding a hook
C26_Witness ==
    \E r \in DCORepos :
        /\ ~dryRun
        /\ HookCheckReturned(r)
        /\ Len(reg.before.hooks[r].pages) = 2
        /\ FirstTargetPage(reg.before.hooks[r]) = 1
        /\ Cardinality(CallsOf("ListHooks", r)) = 1
        /\ CallsOf("ListRequiredStatusChecksContexts", r) # {}
        /\ ~TookNoHookBranch(r)

\* the calls of the two reconcilers, reads and writes
ReconcilerOps ==
    {"ListHooks", "CreateHook", "ListRequiredStatusChecksContexts",
     "GetBranchProtection", "UpdateBranchProtection"}

\* C27: for a repository whose CONTRIBUTING.md is absent or lacks "Developer
\* Certificate of Origin" the sweep issues no hook or branch-protection call;
\* after the answered GetContents call no error is returned and the sweep
\* goes on with the next repository or organization, or ends without error.
C27_NonDCOSkipped ==
    /\ \A r \in RepoNames \ DCORepos : \A op \in ReconcilerOps : CallsOf(op, r) = {}
    /\ \A k \in 1..Len(reg.calls) :
         (/\ reg.calls[k].op = "GetContents"
          /\ reg.calls[k].out = "ok"
          /\ reg.calls[k].target \notin DCORepos) =>
             IF k < Len(reg.calls)
             THEN /\ reg.calls[k + 1].op \in {"GetContents", "ListByOrg"}
                  /\ reg.calls[k + 1].target # reg.calls[k].target
             ELSE /\ reg.err = "nil"
                  /\ \/ reg.pc = "idle" /\ reg.result = "ok"
                     \/ reg.pc = "listOrgRepos"
                     \/ reg.pc = "getContributing" /\ reg.repos[reg.i] # reg.calls[k].target

\* a sweep ended without error after it skipped a repository whose
\* CONTRIBUTING.md spells the literal with another capitalisation
C27_Witness ==
    /\ reg.result = "ok"
    /\ \E r \in RepoNames :
          /\ repos[r].Contributing = File(DocOther)
          /\ CallsOf("GetContents", r) # {}
          /\ \A op \in ReconcilerOps : CallsOf(op, r) = {}

\* every hook of the listing before is at its place in the listing after
HooksKept(before, after) ==
    /\ before.access = after.access
    /\ Len(before.pages) <= Len(after.pages)
    /\ \A p \in 1..Len(before.pages) :
          /\ Len(before.pages[p]) <= Len(after.pages[p])
          /\ SubSeq(after.pages[p], 1, Len(before.pages[p])) = before.pages[p]

\* C28: every hook a repository had when the sweep started is still there,
\* unchanged; a repository that had a hook with the target URL, whatever its
\* events, secret and active flag, has the same hooks and gets no CreateHook.
C28_ExistingHooksUntouched ==
    reg.before # Nil =>
        \A r \in RepoNames :
            /\ HooksKept(reg.before.hooks[r], hooks[r])
            /\ HasTargetHook(reg.before.hooks, r) =>
                   (hooks[r] = reg.before.hooks[r] /\ CallsOf("CreateHook", r) = {})

\* a sweep outside dry-run mode ended without error over a repository whose
\* only hook with the target URL is inactive, listens to push and has another secret
C28_Witness ==
    /\ ~dryRun
    /\ reg.result = "ok"
    /\ \E r \in DCORepos :
          /\ hooks[r] = HookPages(<<<<OtherHook>>, <<StaleHook>>>>)
          /\ CallsOf("ListHooks", r) # {}
          /\ CallsOf("ListRequiredStatusChecksContexts", r) # {}

----------------------------------------------------------------------------
(* Properties of the loop of autoregister                                  *)

\* a sweep is between its start and the return of Register
Running == reg.pc \notin {"idle", "crashed"}

\* C13: at most one call of Register is in flight: while a sweep runs the
\* loop is inside its call of Register, and a tick that fires meanwhile stays
\* in the channel of the ticker.
C13_OneSweepInFlight ==
    /\ loop.inflight <= 1
    /\ Running => (loop.pc = "Register" /\ loop.inflight = 1)

\* a tick fired while a sweep that a tick had started was running
C13_Witness ==
    /\ Running
    /\ reg.calls # <<>>
    /\ reg.previous # "none"
    /\ loop.tickerC = 1

\* C14: with an organization configured the first sweep needs no tick: the
\* immediate channel is filled until a sweep has started; the loop never
\* returns, also after a sweep that returned an error; and whenever the loop
\* is at its select with a value in a channel, receiving it starts a sweep.
C14_LoopKeepsSweeping ==
    (loop.orgs # <<>> /\ loop.pc # "start") =>
        /\ ~loop.first => (loop.pc = "select" /\ loop.immediate = 1)
        /\ loop.pc # "returned"
        /\ \A ch \in {"immediate", "tickerC"} :
               (loop.pc = "select" /\ loop[ch] = 1) => ENABLED selectCase(ch)

\* a tick started a sweep after a sweep that had returned an error
C14_Witness ==
    /\ loop.orgs # <<>>
    /\ reg.previous = "error"
    /\ Running
    /\ loop.immediate = 0

----------------------------------------------------------------------------
(* Properties of the sweep next to another actor                           *)

\* the change e of the other actor fell between the read of
\* addBranchProtection for the same branch and the write that followed it in
\* the sweep that is running or ran last
BetweenReadAndWrite(e) ==
    LET n == Len(e.calls)
    IN /\ n > 0
       /\ e.calls[n].op = "GetBranchProtection"
       /\ e.calls[n].out = "ok"
       /\ e.calls[n].target = e.repo
       /\ e.calls[n].branch = e.branch
       /\ Len(reg.calls) > n
       /\ SubSeq(reg.calls, 1, n) = e.calls

\* C19: when another actor adds a required context to the branch between the
\* read and the write of addBranchProtection, the write follows without a
\* second read, carries the request built from the stale read, and, when it
\* succeeds, leaves the branch without the context the other actor added.
C19_LostUpdate ==
    \A i \in 1..Len(actor) :
        LET e == actor[i]
            n == Len(e.calls)
            read == e.calls[n].body
        IN (BetweenReadAndWrite(e) /\ i = Len(actor)) =>
               /\ reg.calls[n + 1].op = "UpdateBranchProtection"
               /\ reg.calls[n + 1].target = e.repo
               /\ reg.calls[n + 1].body
                      = IF read.protected THEN MergedRequest(read) ELSE DefaultRequest
               /\ (reg.calls[n + 1].out = "ok" /\ reg.calls[n + 1].branch = e.branch) =>
                      \A k \in 1..Len(ContextsOf(protection[e.repo][e.branch])) :
                          ContextsOf(protection[e.repo][e.branch])[k] # ExternalContext

\* the write went through after the other actor had added ci/lint to a branch
\* that required ci/build, and the branch requires ci/build and the fixed context only
C19_Witness ==
    \E i \in 1..Len(actor) :
        /\ BetweenReadAndWrite(actor[i])
        /\ reg.calls[Len(actor[i].calls) + 1].out = "ok"
        /\ actor[i].calls[Len(actor[i].calls)].body = ProtCI
        /\ ContextsOf(protection[actor[i].repo][actor[i].branch])
               = <<"ci/build", SignOffCheckerContext>>

----------------------------------------------------------------------------
(* Properties of handlers that run at once                                 *)

\* the handler has finished a pull request: the listing completed and every
\* status creation succeeded
Published(h) ==
    /\ handler[h].pc = "done"
    /\ handler[h].listed
    /\ Len(handler[h].created) = Len(handler[h].allCommits)

\* C15: when two handlers for the same pull request have both finished and
\* one of them listed the commits the pull request has now, every commit of
\* the pull request carries the status of the verdict over those commits.
C15_SamePullRequestRace ==
    \A h1, h2 \in DOMAIN handler :
        (/\ h1 # h2
         /\ handler[h1].pr # None
         /\ handler[h1].pr = handler[h2].pr
         /\ Published(h1) /\ Published(h2)
         /\ handler[h2].allCommits = PRCommits(h2)) =>
            \A i \in 1..Len(PRCommits(h2)) :
                statuses[PRCommits(h2)[i].SHA]
                    = RepoStatus(Owner, RepoName, SignMissing(PRCommits(h2)))

\* C16: when a handler has finished pull request A while another handler
\* works on a different pull request B, every commit A listed carries the
\* status of A's verdict, whatever the commits of B are.
C16_OtherPullRequestsApart ==
    \A h1, h2 \in DOMAIN handler :
        (/\ Published(h1)
         /\ handler[h2].pr # None
         /\ handler[h2].pr # handler[h1].pr) =>
            \A i \in 1..Len(handler[h1].allCommits) :
                statuses[handler[h1].allCommits[i].SHA]
                    = RepoStatus(Owner, RepoName, handler[h1].signMissing)

====
